---- MODULE Spec2Model ----
(***************************************************************************)
(* A model of asyncio_atexit (src/asyncio_atexit.py): a registry of        *)
(* callbacks per event loop, run by a patched loop.close() before the      *)
(* loop's own close, with an atexit hook that closes an abandoned loop.    *)
(*                                                                         *)
(* The program is single-threaded.  User code (the application, and the    *)
(* bodies of the callbacks a drain is running) calls register, unregister  *)
(* and loop.close(); the interpreter runs the atexit table at exit and     *)
(* collects loops the application dropped.  A callback either returns,     *)
(* returns an awaitable, or raises an Exception (the class line 118        *)
(* names); the same holds for the awaitable once awaited.                  *)
(***************************************************************************)
EXTENDS Integers, Sequences, FiniteSets, TLC

\* Bounds of the model.
MaxPending == 3     \* callbacks held by all lists together
MaxCloses == 2      \* calls of the loops' own close, all loops together
MaxReentrant == 1   \* register/unregister calls made while one drain runs
MaxNamed == 2       \* distinct callbacks the calls of one run introduce
MaxListed == 4      \* length of the lists unregister is applied to on its own

Loops == {"loop1", "loop2"}
CallbackOrder == <<"cb1", "cb2", "cb3">>
Callbacks == {CallbackOrder[i] : i \in DOMAIN CallbackOrder}
None == "None"
NoError == "none"
DefaultLoop == "loop1"
NoWatch == [loop |-> None, cb |-> None, counted |-> FALSE, removed |-> 0]
Observations == {"unwatched", "watched", "counted"}

VARIABLES
    \* ---- module state (src/asyncio_atexit.py) ----
    _registry,          \* keys of the WeakKeyDictionary (line 15)
    callbacks,          \* entry.callbacks of each loop's entry (line 36)
    close_ref,          \* what entry._close_ref resolves to (lines 30-35)
    \* ---- attributes set on the loop objects ----
    loop_close,         \* what loop.close resolves to: "orig" | "patched"
    atexit_orig_close,  \* loop._atexit_orig_close: "unset" | "orig" | "patched"
    \* ---- the host runtime ----
    legacy,             \* the interpreter is older than Python 3.7 (line 17)
    atexit_handlers,    \* the atexit table: loops whose handle is registered
    closed,             \* the loop's own close has run
    alive,              \* the loop object has not been collected
    phase,              \* "run" | "exit" | "done"
    exitTodo,           \* handles atexit has still to call, in LIFO order
    \* ---- the drain in progress (_run_asyncio_atexits) ----
    pc,                 \* "idle" | "iter" | "call" | "await"
    drainLoop,          \* the loop whose patched close is running
    idx,                \* position of the list iterator of line 113
    forced,             \* the close was called by _atexit_close_loop
    \* ---- what is observed of the run ----
    invoked,            \* callbacks the drain in progress has called (line 115)
    raised,             \* a callback of the drain in progress has raised
    mutated,            \* register/unregister hit drainLoop during its drain
    reentrant,          \* register/unregister calls during the drain in progress
    unfinished,         \* callbacks of the drain called and not finished yet
    callsPerDrain,      \* how many such calls user code makes during one drain
    snapshot,           \* the list the drain in progress began with, less the
                        \* callbacks unregistered from its loop since
    late,               \* callbacks registered on drainLoop during its drain
                        \* and not called or unregistered since
    watch,              \* an unregister call the observer watches, until its
                        \* callback is registered again: [loop, cb], with the
                        \* number of removals if counted; or NoWatch
    exitSnapshot,       \* the lists, when the process began to exit, of the
                        \* loops not closed by then and not called on since
    exitRan,            \* per loop: callbacks called since the exit began
    drained,            \* per loop: a patched close has drained its list and
                        \* closed it
    origCloseCalls,     \* per loop: calls of the loop's own close
    entriesCreated,     \* per loop: _RegistryEntry objects constructed
    patches,            \* per loop: assignments to loop.close (line 105)
    used,               \* callbacks user code has named so far
    lastError           \* the exception the last call by user code raised

heapVars == <<_registry, callbacks, close_ref, loop_close, atexit_orig_close,
              atexit_handlers, entriesCreated, patches>>
obsVars == <<invoked, raised, mutated, reentrant, snapshot, late>>
vars == <<legacy, _registry, callbacks, close_ref, loop_close, atexit_orig_close,
          atexit_handlers, closed, alive, phase, exitTodo,
          pc, drainLoop, idx, forced, invoked, raised, mutated,
          reentrant, unfinished, callsPerDrain, snapshot, late, watch, exitSnapshot, exitRan, drained,
          origCloseCalls, entriesCreated, patches, used, lastError>>

----------------------------------------------------------------------------
\* Helpers on sequences.

Range(s) == {s[i] : i \in DOMAIN s}

RECURSIVE Reverse(_)
Reverse(s) == IF s = <<>> THEN <<>> ELSE Append(Reverse(Tail(s)), Head(s))

RECURSIVE Sum(_, _)
Sum(f, S) ==
    IF S = {} THEN 0
    ELSE LET l == CHOOSE x \in S : TRUE IN f[l] + Sum(f, S \ {l})

Without(s, x) == LET Keep(y) == y # x IN SelectSeq(s, Keep)

Count(s, x) == Cardinality({i \in DOMAIN s : s[i] = x})

\* The first position of x in s (x occurs in s).
IndexOf(s, x) == CHOOSE i \in DOMAIN s : s[i] = x /\ \A j \in 1..(i-1) : s[j] # x

----------------------------------------------------------------------------
\* The module's state as one value, so that a function of the source is a
\* function on it.

Heap == [registry |-> _registry, callbacks |-> callbacks, close_ref |-> close_ref,
         loop_close |-> loop_close, atexit_orig_close |-> atexit_orig_close,
         atexit_handlers |-> atexit_handlers,
         entriesCreated |-> entriesCreated, patches |-> patches]

SetHeap(h) ==
    /\ _registry' = h.registry
    /\ callbacks' = h.callbacks
    /\ close_ref' = h.close_ref
    /\ loop_close' = h.loop_close
    /\ atexit_orig_close' = h.atexit_orig_close
    /\ atexit_handlers' = h.atexit_handlers
    /\ entriesCreated' = h.entriesCreated
    /\ patches' = h.patches

\* asyncio.get_event_loop, where loop r is running: the running loop, or the
\* policy's default loop when none is.
asyncio_get_event_loop(r) ==
    IF r = None THEN [loop |-> DefaultLoop, raised |-> NoError]
    ELSE [loop |-> r, raised |-> NoError]

\* asyncio.get_running_loop: the running loop, or RuntimeError.
asyncio_get_running_loop(r) ==
    IF r = None THEN [loop |-> None, raised |-> "RuntimeError: no running event loop"]
    ELSE [loop |-> r, raised |-> NoError]

\* The test of line 17.
VersionAny == TRUE

VersionBefore37 == legacy

\* get_running_loop, as lines 17-20 bind it.
get_running_loop(r) ==
    IF VersionBefore37 THEN asyncio_get_event_loop(r) ELSE asyncio_get_running_loop(r)

\* The list object entry.callbacks names: one list per entry, made in
\* __init__ (line 36).
SharedCallbacks(loop) == DefaultLoop

CallbacksOf(loop) == loop

\* atexit.register(handle) and atexit.unregister(handle) (lines 39, 42).
atexit_register(h, loop) == [h EXCEPT !.atexit_handlers = Append(@, loop)]

atexit_keep(h, loop) == h

atexit_unregister(h, loop) == [h EXCEPT !.atexit_handlers = Without(@, loop)]

\* _RegistryEntry.__init__ (lines 24-39).
RegistryEntry_init(h, loop) ==
    LET orig == IF h.atexit_orig_close[loop] = "unset"
                THEN h.loop_close[loop]
                ELSE h.atexit_orig_close[loop]
        h1 == [h EXCEPT !.atexit_orig_close[loop] = orig,
                        !.close_ref[loop] = orig,
                        !.callbacks[CallbacksOf(loop)] = <<>>,
                        !.entriesCreated[loop] = @ + 1]
    IN atexit_register(h1, loop)

\* `loop in _registry` (line 100).
NeverInRegistry(h, loop) == FALSE

InRegistry(h, loop) == loop \in h.registry

\* _register_loop (lines 98-105): the entry is created, capturing the loop's
\* close (line 103), before close is replaced (line 105).
PatchThenRegister(h, loop) ==
    IF InRegistry(h, loop) THEN h
    ELSE LET h0 == [h EXCEPT !.loop_close[loop] = "patched",
                             !.patches[loop] = @ + 1]
             h1 == RegistryEntry_init(h0, loop)
         IN [h1 EXCEPT !.registry = @ \cup {loop}]

_register_loop(h, loop) ==
    IF InRegistry(h, loop) THEN h
    ELSE LET h1 == RegistryEntry_init(h, loop)
         IN [h1 EXCEPT !.registry = @ \cup {loop},
                       !.loop_close[loop] = "patched",
                       !.patches[loop] = @ + 1]

\* _get_entry (lines 90-95): the heap after it, the loop it resolved, and the
\* exception it raised.
_get_entry(h, loopArg, r) ==
    LET g == IF loopArg = None THEN get_running_loop(r)
             ELSE [loop |-> loopArg, raised |-> NoError]
    IN IF g.raised # NoError
       THEN [heap |-> h, loop |-> None, raised |-> g.raised]
       ELSE [heap |-> _register_loop(h, g.loop), loop |-> g.loop, raised |-> NoError]

\* list.remove(x): drops the first x, or raises ValueError.
list_remove_head(s, x) ==
    IF x \notin Range(s) THEN [list |-> s, raised |-> "ValueError"]
    ELSE [list |-> Tail(s), raised |-> NoError]

list_remove(s, x) ==
    IF x \notin Range(s) THEN [list |-> s, raised |-> "ValueError"]
    ELSE LET i == IndexOf(s, x)
         IN [list |-> SubSeq(s, 1, i - 1) \o SubSeq(s, i + 1, Len(s)),
             raised |-> NoError]

\* The except clause of line 82.
ExceptKeyError(exc) == exc = "KeyError"

ExceptValueError(exc) == exc = "ValueError"

\* One try/remove with no loop around it.
RemoveOnce(s, x) ==
    LET r == list_remove(s, x)
    IN [list |-> r.list, raised |-> NoError, removed |-> IF r.raised = NoError THEN 1 ELSE 0]

\* The loop of lines 79-83: the list it leaves, the exception that escapes
\* it, and the number of removals made.
RECURSIVE RemoveLoopFrom(_, _, _)
RemoveLoopFrom(s, x, n) ==
    LET r == list_remove(s, x)
    IN IF r.raised # NoError
       THEN [list |-> r.list,
             raised |-> IF ExceptValueError(r.raised) THEN NoError ELSE r.raised,
             removed |-> n]
       ELSE RemoveLoopFrom(r.list, x, n + 1)

RemoveLoop(s, x) == RemoveLoopFrom(s, x, 0)


\* The try block of lines 114-122 covers the call (line 115) and the await
\* (line 117).
TryCoversNothing(where) == FALSE

TryCoversCallOnly(where) == where = "call"

TryCovers(where) == where \in {"call", "await"}

\* The callback the iterator of line 113 yields at position i (0-based).
\* Lines 116-117: the drain awaits the awaitable a callback returned, and
\* goes on to the next callback only when it has completed.
NotAwaited == "iter"

AfterAwaitable == "await"

\* The test of line 131: a drain is scheduled for a list that is not empty.
AlwaysDrain(cbs) == TRUE

NeverDrain(cbs) == FALSE

HasCallbacks(cbs) == cbs # <<>>

\* Line 133: entry.callbacks[:] = [].
KeepList(cbs) == cbs

ClearList(cbs) == <<>>

NextCallbackReversed(cbs, i) == cbs[Len(cbs) - i]

NextCallback(cbs, i) == cbs[i + 1]

----------------------------------------------------------------------------
Init ==
    /\ legacy = FALSE
    /\ _registry = {}
    /\ callbacks = [l \in Loops |-> <<>>]
    /\ close_ref = [l \in Loops |-> "none"]
    /\ loop_close = [l \in Loops |-> "orig"]
    /\ atexit_orig_close = [l \in Loops |-> "unset"]
    /\ atexit_handlers = <<>>
    /\ closed = [l \in Loops |-> FALSE]
    /\ alive = [l \in Loops |-> TRUE]
    /\ phase = "run"
    /\ exitTodo = <<>>
    /\ pc = "idle"
    /\ drainLoop = None
    /\ idx = 0
    /\ forced = FALSE
    /\ invoked = <<>>
    /\ raised = FALSE
    /\ mutated = FALSE
    /\ reentrant = 0
    /\ unfinished = 0
    /\ callsPerDrain = MaxReentrant
    /\ snapshot = <<>>
    /\ late = {}
    /\ watch = NoWatch
    /\ exitSnapshot = [l \in Loops |-> <<>>]
    /\ exitRan = [l \in Loops |-> <<>>]
    /\ drained = [l \in Loops |-> FALSE]
    /\ origCloseCalls = [l \in Loops |-> 0]
    /\ entriesCreated = [l \in Loops |-> 0]
    /\ patches = [l \in Loops |-> 0]
    /\ used = {}
    /\ lastError = NoError

\* The loop that is running where a call is made, which is what
\* get_running_loop() sees.  In a drain it is the loop being closed
\* (run_until_complete, line 132); the application is inside a loop it is
\* running (asyncio.run, run_until_complete) or outside any.  A call that
\* names its loop does not look.
RunningChoices(loopArg) ==
    IF pc # "idle" THEN {drainLoop}
    ELSE IF loopArg # None THEN {None}
    ELSE {None} \cup {l \in Loops : alive[l] /\ ~closed[l]}

\* User code can run: the application's own, or the body of a callback (or a
\* task scheduled beside it) during a drain.
CanCall ==
    \/ phase = "run" /\ pc = "idle"
    \/ pc \in {"call", "await"} /\ reentrant < callsPerDrain

\* Callbacks are interchangeable: user code names them in a fixed order of
\* first use.
Nameable(c) ==
    \/ c \in used
    \/ /\ Cardinality(used) < MaxNamed
       /\ Cardinality(used) < Len(CallbackOrder)
       /\ c = CallbackOrder[Cardinality(used) + 1]

\* The loop a call acts on (None: the call raises).
Target(loopArg, r) == _get_entry(Heap, loopArg, r).loop

\* exitSnapshot after a call on loop l: a loop user code calls register or
\* unregister on while the process exits is no longer held to its list.
SinceExit(l) ==
    IF phase = "exit" /\ l \in Loops
    THEN [exitSnapshot EXCEPT ![l] = <<>>]
    ELSE exitSnapshot

\* What was observed of the last drain is kept until the next operation
\* outside a drain.
Observe(l) ==
    IF pc = "idle"
    THEN /\ invoked' = <<>>
         /\ raised' = FALSE
         /\ mutated' = FALSE
         /\ reentrant' = 0
         /\ drainLoop' = None
         /\ snapshot' = <<>>
         /\ late' = {}
    ELSE /\ mutated' = (mutated \/ l = drainLoop)
         /\ reentrant' = reentrant + 1
         /\ UNCHANGED <<invoked, raised, drainLoop>>

\* What the drain in progress owes after a call on loop l during it: a
\* callback registered on its loop and not in the list yet is owed, one
\* unregistered from its loop no longer is.
Owed(op, callback, l) ==
    IF pc = "idle" THEN TRUE
    ELSE IF l # drainLoop THEN UNCHANGED <<snapshot, late>>
    ELSE IF op = "register"
    THEN /\ late' = IF callback \in Range(callbacks[CallbacksOf(l)])
                    THEN late ELSE late \cup {callback}
         /\ UNCHANGED snapshot
    ELSE /\ late' = late \ {callback}
         /\ snapshot' = Without(snapshot, callback)

\* register (lines 49-66), called where loop r is running.
register(callback, loopArg, r) ==
    /\ CanCall
    /\ Nameable(callback)
    /\ r \in RunningChoices(loopArg)
    /\ Target(loopArg, r) \in Loops => alive[Target(loopArg, r)]
    /\ Sum([l \in Loops |-> Len(callbacks[l])], Loops) < MaxPending
    /\ used' = used \cup {callback}
    /\ LET e == _get_entry(Heap, loopArg, r)
       IN IF e.raised # NoError
          THEN /\ lastError' = e.raised
               /\ UNCHANGED <<heapVars, watch>>
          ELSE /\ SetHeap([e.heap EXCEPT !.callbacks[CallbacksOf(e.loop)] =
                                                Append(@, callback)])
               /\ watch' = IF watch.loop = e.loop /\ watch.cb = callback
                           THEN NoWatch ELSE watch
               /\ lastError' = NoError
    /\ Observe(Target(loopArg, r))
    /\ Owed("register", callback, Target(loopArg, r))
    /\ exitSnapshot' = SinceExit(Target(loopArg, r))
    /\ UNCHANGED <<legacy, callsPerDrain, unfinished, closed, alive, phase,
                   exitTodo, pc, idx, forced, exitRan, drained, origCloseCalls>>

\* unregister (lines 69-87), called where loop r is running; w: what the
\* observer does with this call (one of Observations).
unregister(callback, loopArg, r, w) ==
    /\ CanCall
    /\ Nameable(callback)
    /\ r \in RunningChoices(loopArg)
    /\ Target(loopArg, r) \in Loops => alive[Target(loopArg, r)]
    /\ used' = used \cup {callback}
    /\ LET e == _get_entry(Heap, loopArg, r)
       IN IF e.raised # NoError
          THEN /\ w = "unwatched"
               /\ lastError' = e.raised
               /\ UNCHANGED <<heapVars, watch>>
          ELSE LET own == CallbacksOf(e.loop)
                   rm == RemoveLoop(e.heap.callbacks[own], callback)
                   h1 == [e.heap EXCEPT !.callbacks[own] = rm.list]
               IN /\ IF rm.raised = NoError /\ rm.list = <<>>
                     THEN SetHeap(atexit_unregister(h1, e.loop))
                     ELSE SetHeap(h1)
                  /\ watch' = CASE w = "unwatched" -> watch
                                [] w = "watched" ->
                                     [loop |-> e.loop, cb |-> callback,
                                      counted |-> FALSE, removed |-> 0]
                                [] w = "counted" ->
                                     [loop |-> e.loop, cb |-> callback,
                                      counted |-> TRUE, removed |-> rm.removed]
                  /\ lastError' = rm.raised
    /\ Observe(Target(loopArg, r))
    /\ Owed("unregister", callback, Target(loopArg, r))
    /\ exitSnapshot' = SinceExit(Target(loopArg, r))
    /\ UNCHANGED <<legacy, callsPerDrain, unfinished, closed, alive, phase,
                   exitTodo, pc, idx, forced, exitRan, drained, origCloseCalls>>

\* What the caller of loop.close() sees of its outcome: _atexit_close_loop
\* catches an exception (lines 147-150), the application receives it.
ReturnedUncaught(l, exc, isForced) ==
    lastError' = exc

Returned(l, exc, isForced) ==
    lastError' = IF isForced THEN lastError ELSE exc

\* The loop's own close.
OrigClose(l) ==
    /\ closed' = [closed EXCEPT ![l] = TRUE]
    /\ origCloseCalls' = [origCloseCalls EXCEPT ![l] = @ + 1]

\* Line 133 and _RegistryEntry.close (lines 44-46).
EntryClose(h, l, isForced) ==
    /\ SetHeap(atexit_unregister(
                   [h EXCEPT !.callbacks[CallbacksOf(l)] = ClearList(@)], l))
    /\ IF h.close_ref[l] = "orig"
       THEN /\ OrigClose(l)
            /\ Returned(l, NoError, isForced)
       ELSE \* the reference leads back to the wrapper: unbounded recursion
            /\ UNCHANGED <<closed, origCloseCalls>>
            /\ Returned(l, "RecursionError", isForced)

\* loop.close(), called outside any drain: the loop's own close, or
\* _asyncio_atexit_close (lines 125-134) up to the point where
\* run_until_complete starts the drain.
CloseCall(l, isForced) ==
    /\ invoked' = <<>>
    /\ raised' = FALSE
    /\ mutated' = FALSE
    /\ reentrant' = 0
    /\ late' = {}
    /\ IF loop_close[l] = "orig"
       THEN /\ OrigClose(l)
            /\ Returned(l, NoError, isForced)
            /\ drainLoop' = None
            /\ snapshot' = <<>>
            /\ UNCHANGED <<heapVars, pc, idx, forced>>
       ELSE LET e == _get_entry(Heap, l, None)
                cbs == e.heap.callbacks[CallbacksOf(l)]
            IN IF ~HasCallbacks(cbs)
               THEN /\ EntryClose(e.heap, l, isForced)
                    /\ drainLoop' = None
                    /\ snapshot' = <<>>
                    /\ UNCHANGED <<pc, idx, forced>>
               ELSE IF closed[l]
               THEN \* run_until_complete refuses a closed loop
                    /\ SetHeap(e.heap)
                    /\ Returned(l, "RuntimeError: Event loop is closed", isForced)
                    /\ drainLoop' = None
                    /\ snapshot' = <<>>
                    /\ UNCHANGED <<closed, origCloseCalls, pc, idx, forced>>
               ELSE /\ SetHeap(e.heap)
                    /\ pc' = "iter"
                    /\ drainLoop' = l
                    /\ snapshot' = cbs
                    /\ idx' = 0
                    /\ forced' = isForced
                    /\ UNCHANGED <<closed, origCloseCalls, lastError>>

\* The application calls loop.close() on a loop that is not running.
Close(l) ==
    /\ phase = "run" /\ pc = "idle"
    /\ alive[l]
    /\ Sum(origCloseCalls, Loops) < MaxCloses
    /\ CloseCall(l, FALSE)
    /\ UNCHANGED <<legacy, callsPerDrain, unfinished, alive, phase, exitTodo,
                   watch, exitSnapshot, exitRan, drained, used>>

\* The application drops a loop and the collector frees it: its key leaves
\* the WeakKeyDictionary (line 15) and the entry goes with it; the atexit
\* table keeps the handle, whose weak reference is now dead (line 37).
\* Nothing is observed of a collected loop any more.
Collect(l) ==
    /\ phase = "run" /\ pc = "idle"
    /\ alive[l]
    /\ alive' = [alive EXCEPT ![l] = FALSE]
    /\ _registry' = _registry \ {l}
    /\ callbacks' = [callbacks EXCEPT ![l] = <<>>]
    /\ close_ref' = [close_ref EXCEPT ![l] = "none"]
    /\ loop_close' = [loop_close EXCEPT ![l] = "orig"]
    /\ atexit_orig_close' = [atexit_orig_close EXCEPT ![l] = "unset"]
    /\ entriesCreated' = [entriesCreated EXCEPT ![l] = 0]
    /\ patches' = [patches EXCEPT ![l] = 0]
    /\ closed' = [closed EXCEPT ![l] = FALSE]
    /\ origCloseCalls' = [origCloseCalls EXCEPT ![l] = 0]
    /\ watch' = IF watch.loop = l THEN NoWatch ELSE watch
    /\ drained' = [drained EXCEPT ![l] = FALSE]
    /\ Observe(l)
    /\ UNCHANGED <<legacy, callsPerDrain, unfinished, atexit_handlers, phase,
                   exitTodo, pc, idx, forced, exitSnapshot, exitRan, used,
                   lastError>>

----------------------------------------------------------------------------
\* _run_asyncio_atexits (lines 108-122), one step per point where user code
\* runs.  The list iterated is the entry's own list, not a copy (line 132).

DrainList == callbacks[CallbacksOf(drainLoop)]

\* Line 113 yields the next callback and line 115 calls it.
DrainNext ==
    /\ pc = "iter"
    /\ idx < Len(DrainList)
    /\ LET c == NextCallback(DrainList, idx)
       IN /\ invoked' = Append(invoked, c)
          /\ late' = late \ {c}
          /\ exitRan' = IF phase = "exit"
                        THEN [exitRan EXCEPT ![drainLoop] = Append(@, c)]
                        ELSE exitRan
    /\ idx' = idx + 1
    /\ pc' = "call"
    /\ unfinished' = unfinished + 1
    /\ UNCHANGED <<legacy, callsPerDrain, heapVars, closed, alive, phase,
                   exitTodo, drainLoop, forced, raised, mutated, reentrant,
                   snapshot, watch, exitSnapshot, drained, origCloseCalls,
                   used, lastError>>

\* An exception raised at line 115 or 117: caught and printed (lines 118-122),
\* or, outside the try block, leaving run_until_complete and the patched
\* close with lines 133-134 not run.
Raise(where) ==
    /\ raised' = TRUE
    /\ IF TryCovers(where)
       THEN /\ pc' = "iter"
            /\ UNCHANGED <<idx, forced, lastError>>
       ELSE /\ Returned(drainLoop, "Exception", forced)
            /\ pc' = "idle"
            /\ idx' = 0
            /\ forced' = FALSE
    /\ unfinished' = unfinished - 1
    /\ UNCHANGED <<legacy, callsPerDrain, heapVars, closed, alive, phase,
                   exitTodo, drainLoop, invoked, mutated, reentrant, snapshot,
                   late, watch, exitSnapshot, exitRan, drained,
                   origCloseCalls, used>>

\* The call of line 115 ends: it returns a plain value, returns an awaitable
\* (line 116), or raises.
CallbackReturns ==
    /\ pc = "call"
    /\ pc' = "iter"
    /\ unfinished' = unfinished - 1
    /\ UNCHANGED <<legacy, callsPerDrain, heapVars, closed, alive, phase,
                   exitTodo, drainLoop, idx, forced, obsVars, watch,
                   exitSnapshot, exitRan, drained, origCloseCalls, used,
                   lastError>>

CallbackReturnsAwaitable ==
    /\ pc = "call"
    /\ pc' = AfterAwaitable
    /\ UNCHANGED <<legacy, callsPerDrain, unfinished, heapVars, closed, alive,
                   phase, exitTodo, drainLoop, idx, forced, obsVars, watch,
                   exitSnapshot, exitRan, drained, origCloseCalls, used,
                   lastError>>

CallbackRaises ==
    /\ pc = "call"
    /\ Raise("call")

\* The await of line 117 ends: the awaitable completes or raises.
AwaitCompletes ==
    /\ pc = "await"
    /\ pc' = "iter"
    /\ unfinished' = unfinished - 1
    /\ UNCHANGED <<legacy, callsPerDrain, heapVars, closed, alive, phase,
                   exitTodo, drainLoop, idx, forced, obsVars, watch,
                   exitSnapshot, exitRan, drained, origCloseCalls, used,
                   lastError>>

AwaitRaises ==
    /\ pc = "await"
    /\ Raise("await")

\* The iterator is exhausted: run_until_complete returns (line 132), the list
\* is cleared (line 133) and entry.close() runs (line 134).
DrainFinish ==
    /\ pc = "iter"
    /\ idx >= Len(DrainList)
    /\ pc' = "idle"
    /\ idx' = 0
    /\ forced' = FALSE
    /\ EntryClose(Heap, drainLoop, forced)
    /\ drained' = [drained EXCEPT ![drainLoop] = closed'[drainLoop]]
    /\ UNCHANGED <<legacy, callsPerDrain, unfinished, alive, phase, exitTodo,
                   drainLoop, invoked, raised, mutated, reentrant, snapshot,
                   late, watch, exitSnapshot, exitRan, used>>

----------------------------------------------------------------------------
\* Process exit: atexit calls the registered handles, last registered first.

ProcessExit ==
    /\ phase = "run" /\ pc = "idle"
    /\ phase' = "exit"
    /\ exitTodo' = Reverse(atexit_handlers)
    /\ exitSnapshot' = [l \in Loops |-> IF closed[l] THEN <<>> ELSE callbacks[l]]
    /\ Observe(None)
    /\ UNCHANGED <<legacy, callsPerDrain, unfinished, heapVars, closed, alive,
                   pc, idx, forced, watch, exitRan, drained, origCloseCalls,
                   used, lastError>>

\* _atexit_close_loop (lines 137-150) for the next handle, unless it was
\* unregistered in the meantime.
AtexitStep ==
    /\ phase = "exit" /\ pc = "idle"
    /\ exitTodo # <<>>
    /\ exitTodo' = Tail(exitTodo)
    /\ LET l == Head(exitTodo)
       IN IF l \in Range(atexit_handlers) /\ alive[l]
          THEN CloseCall(l, TRUE)
          ELSE /\ Observe(None)
               /\ UNCHANGED <<heapVars, closed, pc, idx, forced,
                              origCloseCalls, lastError>>
    /\ UNCHANGED <<legacy, callsPerDrain, unfinished, alive, phase, watch,
                   exitSnapshot, exitRan, drained, used>>

ExitDone ==
    /\ phase = "exit" /\ pc = "idle"
    /\ exitTodo = <<>>
    /\ phase' = "done"
    /\ Observe(None)
    /\ UNCHANGED <<legacy, callsPerDrain, unfinished, heapVars, closed, alive,
                   exitTodo, pc, idx, forced, watch, exitSnapshot, exitRan,
                   drained, origCloseCalls, used, lastError>>

----------------------------------------------------------------------------
Next ==
    \/ \E c \in Callbacks, la \in Loops \cup {None}, r \in Loops \cup {None} :
           register(c, la, r)
    \/ \E c \in Callbacks, la \in Loops \cup {None}, r \in Loops \cup {None} :
           unregister(c, la, r, "unwatched")
    \/ \E l \in Loops : Close(l)
    \/ \E l \in Loops : Collect(l)
    \/ DrainNext
    \/ CallbackReturns
    \/ CallbackReturnsAwaitable
    \/ CallbackRaises
    \/ AwaitCompletes
    \/ AwaitRaises
    \/ DrainFinish
    \/ ProcessExit
    \/ AtexitStep
    \/ ExitDone

\* Python 3.7 or later, no call observed.
Spec == Init /\ [][Next]_vars

\* The same runs with an observer that picks unregister calls to watch.
NextWatch ==
    \/ \E c \in Callbacks, la \in Loops \cup {None}, r \in Loops \cup {None} :
           unregister(c, la, r, "watched")
    \/ Next

SpecWatch == Init /\ [][NextWatch]_vars

\* The same runs on either side of the version test of line 17.
InitAnyPython ==
    \E v \in BOOLEAN :
        /\ legacy = v
        /\ _registry = {}
        /\ callbacks = [l \in Loops |-> <<>>]
        /\ close_ref = [l \in Loops |-> "none"]
        /\ loop_close = [l \in Loops |-> "orig"]
        /\ atexit_orig_close = [l \in Loops |-> "unset"]
        /\ atexit_handlers = <<>>
        /\ closed = [l \in Loops |-> FALSE]
        /\ alive = [l \in Loops |-> TRUE]
        /\ phase = "run"
        /\ exitTodo = <<>>
        /\ pc = "idle"
        /\ drainLoop = None
        /\ idx = 0
        /\ forced = FALSE
        /\ invoked = <<>>
        /\ raised = FALSE
        /\ mutated = FALSE
        /\ reentrant = 0
        /\ unfinished = 0
        /\ callsPerDrain = MaxReentrant
        /\ snapshot = <<>>
        /\ late = {}
        /\ watch = NoWatch
        /\ exitSnapshot = [l \in Loops |-> <<>>]
        /\ exitRan = [l \in Loops |-> <<>>]
        /\ drained = [l \in Loops |-> FALSE]
        /\ origCloseCalls = [l \in Loops |-> 0]
        /\ entriesCreated = [l \in Loops |-> 0]
        /\ patches = [l \in Loops |-> 0]
        /\ used = {}
        /\ lastError = NoError

SpecAnyPython == InitAnyPython /\ [][Next]_vars

\* The same runs with user code making one more call of register or
\* unregister during a drain: a callback can then both remove one callback
\* and add another (lines 65-66, 77-83, while line 113 iterates).
InitDrain ==
    /\ legacy = FALSE
    /\ _registry = {}
    /\ callbacks = [l \in Loops |-> <<>>]
    /\ close_ref = [l \in Loops |-> "none"]
    /\ loop_close = [l \in Loops |-> "orig"]
    /\ atexit_orig_close = [l \in Loops |-> "unset"]
    /\ atexit_handlers = <<>>
    /\ closed = [l \in Loops |-> FALSE]
    /\ alive = [l \in Loops |-> TRUE]
    /\ phase = "run"
    /\ exitTodo = <<>>
    /\ pc = "idle"
    /\ drainLoop = None
    /\ idx = 0
    /\ forced = FALSE
    /\ invoked = <<>>
    /\ raised = FALSE
    /\ mutated = FALSE
    /\ reentrant = 0
    /\ unfinished = 0
    /\ callsPerDrain = MaxReentrant + 1
    /\ snapshot = <<>>
    /\ late = {}
    /\ watch = NoWatch
    /\ exitSnapshot = [l \in Loops |-> <<>>]
    /\ exitRan = [l \in Loops |-> <<>>]
    /\ drained = [l \in Loops |-> FALSE]
    /\ origCloseCalls = [l \in Loops |-> 0]
    /\ entriesCreated = [l \in Loops |-> 0]
    /\ patches = [l \in Loops |-> 0]
    /\ used = {}
    /\ lastError = NoError

SpecDrain == InitDrain /\ [][Next]_vars

\* unregister alone, on every list of up to MaxListed callbacks: DefaultLoop
\* has its entry (lines 24-39, 103-105) holding the list, with its atexit
\* handle registered or (lines 85-87, after an unregister that emptied the
\* list) not; the other loop is untouched.
ListsUpTo(n) == UNION {[1..k -> Callbacks] : k \in 0..n}

InitUnregister ==
    \E cbs \in ListsUpTo(MaxListed), handle \in BOOLEAN :
        /\ cbs = <<>> => ~handle
        /\ legacy = FALSE
        /\ _registry = {DefaultLoop}
        /\ callbacks = [l \in Loops |-> IF l = DefaultLoop THEN cbs ELSE <<>>]
        /\ close_ref = [l \in Loops |-> IF l = DefaultLoop THEN "orig" ELSE "none"]
        /\ loop_close = [l \in Loops |-> IF l = DefaultLoop THEN "patched" ELSE "orig"]
        /\ atexit_orig_close = [l \in Loops |-> IF l = DefaultLoop THEN "orig" ELSE "unset"]
        /\ atexit_handlers = IF handle THEN <<DefaultLoop>> ELSE <<>>
        /\ closed = [l \in Loops |-> FALSE]
        /\ alive = [l \in Loops |-> TRUE]
        /\ phase = "run"
        /\ exitTodo = <<>>
        /\ pc = "idle"
        /\ drainLoop = None
        /\ idx = 0
        /\ forced = FALSE
        /\ invoked = <<>>
        /\ raised = FALSE
        /\ mutated = FALSE
        /\ reentrant = 0
        /\ unfinished = 0
        /\ callsPerDrain = MaxReentrant
        /\ snapshot = <<>>
        /\ late = {}
        /\ watch = NoWatch
        /\ exitSnapshot = [l \in Loops |-> <<>>]
        /\ exitRan = [l \in Loops |-> <<>>]
        /\ drained = [l \in Loops |-> FALSE]
        /\ origCloseCalls = [l \in Loops |-> 0]
        /\ entriesCreated = [l \in Loops |-> IF l = DefaultLoop THEN 1 ELSE 0]
        /\ patches = [l \in Loops |-> IF l = DefaultLoop THEN 1 ELSE 0]
        /\ used = Callbacks
        /\ lastError = NoError

NextUnregister ==
    \E c \in Callbacks, la \in Loops \cup {None}, r \in Loops \cup {None} :
        unregister(c, la, r, "counted")

SpecUnregister == InitUnregister /\ [][NextUnregister]_vars

----------------------------------------------------------------------------
\* The calls of the API, for the properties below.
ApiLoops == Loops \cup {None}

\* C5: once unregister(cb) was called on a loop and cb was not registered on
\* it again, no drain of that loop, started by the application's close or by
\* the atexit hook, calls cb, whatever the number of occurrences removed.
C5_UnregisteredNeverInvoked ==
    [][(/\ watch.loop \in Loops
        /\ watch' = watch
        /\ Len(invoked') > Len(invoked)
        /\ drainLoop = watch.loop)
       => invoked'[Len(invoked')] # watch.cb]_vars

\* C5 witness: after a watched unregister the loop was drained and closed,
\* calling two other callbacks.
C5_Witness ==
    /\ watch.loop \in Loops
    /\ Len(invoked) >= 2
    /\ pc = "idle"
    /\ drainLoop = watch.loop
    /\ closed[watch.loop]

\* C6: one unregister(cb) call leaves the target loop's list without any cb
\* and with all its other callbacks, in the order they had.
C6_UnregisterRemovesAllOccurrences ==
    [][\A c \in Callbacks, la \in ApiLoops, r \in ApiLoops :
          (unregister(c, la, r, "counted") /\ Target(la, r) \in Loops)
          => callbacks'[Target(la, r)] = Without(callbacks[Target(la, r)], c)]_vars

\* C6 witness: an unregister call removed two occurrences and left two
\* different callbacks behind.
C6_Witness ==
    /\ watch.loop \in Loops
    /\ watch.counted
    /\ watch.removed >= 2
    /\ Cardinality(Range(callbacks[watch.loop])) >= 2

\* C7: unregister(cb) on a loop whose list does not hold cb raises nothing
\* and leaves the list as it was.
C7_UnregisterAbsentIsNoOp ==
    [][\A c \in Callbacks, la \in ApiLoops, r \in ApiLoops :
          (/\ unregister(c, la, r, "counted")
           /\ Target(la, r) \in Loops
           /\ c \notin Range(callbacks[Target(la, r)]))
          => /\ lastError' = NoError
             /\ callbacks'[Target(la, r)] = callbacks[Target(la, r)]]_vars

\* C7 witness: an unregister call found nothing to remove in a list that
\* holds other callbacks, and returned.
C7_Witness ==
    /\ watch.loop \in Loops
    /\ watch.counted
    /\ watch.removed = 0
    /\ callbacks[watch.loop] # <<>>
    /\ watch.cb \notin Range(callbacks[watch.loop])
    /\ lastError = NoError

\* A drain ends: run_until_complete returns or lets an exception through.
DrainEnds == pc # "idle" /\ pc' = "idle"

\* C1: when a loop is closed after the register and unregister calls made on
\* it, the drain calls every occurrence left in its list once, in the order
\* of registration, whatever the callbacks return.
C1_DrainInRegistrationOrder ==
    [][(DrainEnds /\ ~mutated) => invoked = callbacks[drainLoop]]_vars

\* C1 witness: a loop was drained and closed with a list of three
\* occurrences of two callbacks.
C1_Witness ==
    /\ pc = "idle"
    /\ drainLoop \in Loops
    /\ closed[drainLoop]
    /\ ~mutated
    /\ Len(invoked) = 3
    /\ Cardinality(Range(invoked)) = 2

C2_ExitFallbackRunsAll ==
    phase = "done" =>
        \A l \in Loops :
            alive[l] => \A c \in Range(exitSnapshot[l]) :
                            Count(exitRan[l], c) >= Count(exitSnapshot[l], c)

\* C8: a register or unregister call changes no list but its target's, a
\* close and the steps of its drain (those that are no call by user code)
\* change no list but the closed loop's, and a drain calls only callbacks of
\* the list of the loop being closed.
C8_LoopsAreIsolated ==
    [][/\ \A c \in Callbacks, la \in ApiLoops, r \in ApiLoops :
             (register(c, la, r) \/ unregister(c, la, r, "unwatched"))
             => \A m \in Loops \ {Target(la, r)} : callbacks'[m] = callbacks[m]
       /\ \A l \in Loops :
             Close(l) => \A m \in Loops \ {l} : callbacks'[m] = callbacks[m]
       /\ (pc # "idle" /\ reentrant' = reentrant)
             => \A m \in Loops \ {drainLoop} : callbacks'[m] = callbacks[m]
       /\ Len(invoked') > Len(invoked)
             => invoked'[Len(invoked')] \in Range(callbacks[drainLoop])]_vars

\* C8 witness: one loop was drained and closed while the other held a list
\* of callbacks none of which was called.
C8_Witness ==
    /\ pc = "idle"
    /\ drainLoop \in Loops
    /\ closed[drainLoop]
    /\ invoked # <<>>
    /\ \E m \in Loops \ {drainLoop} :
          /\ callbacks[m] # <<>>
          /\ Range(callbacks[m]) \cap Range(invoked) = {}

\* C9 as stated: register or unregister with no loop argument and no running
\* loop raises the RuntimeError of get_running_loop and changes nothing: no
\* entry, no patch, no atexit handle, no list.
NoLoopCall ==
    \E c \in Callbacks : register(c, None, None) \/ unregister(c, None, None, "unwatched")

C9_NoRunningLoopFails ==
    [][NoLoopCall
       => /\ lastError' = "RuntimeError: no running event loop"
          /\ UNCHANGED heapVars]_vars

\* C9 amended: the same on Python 3.7 or later, where line 20 binds
\* get_running_loop to asyncio.get_running_loop.
C9_NoRunningLoopFailsSince37 ==
    [][(NoLoopCall /\ ~legacy)
       => /\ lastError' = "RuntimeError: no running event loop"
          /\ UNCHANGED heapVars]_vars

\* C9 witness: on Python 3.7 or later a call has raised the error, with an
\* entry and a list in place.
C9_Witness ==
    /\ ~legacy
    /\ lastError = "RuntimeError: no running event loop"
    /\ \E l \in _registry : callbacks[l] # <<>>

\* C10: a live loop has had at most one entry constructed and its close
\* assigned at most once, and what its entry calls as the loop's own close
\* is the loop's own close, not the wrapper.
C10_InstallationIsIdempotent ==
    \A l \in Loops :
        alive[l] => /\ entriesCreated[l] <= 1
                    /\ patches[l] <= 1
                    /\ l \in _registry => /\ close_ref[l] = "orig"
                                           /\ atexit_orig_close[l] = "orig"
                                           /\ loop_close[l] = "patched"

\* C10 witness: a loop that was registered on, closed, and registered on
\* again has one entry and one patch.
C10_Witness ==
    \E l \in Loops :
        /\ alive[l]
        /\ closed[l]
        /\ origCloseCalls[l] = 1
        /\ callbacks[l] # <<>>
        /\ entriesCreated[l] = 1
        /\ patches[l] = 1


----------------------------------------------------------------------------
\* A forced close of loop l at exit (line 148).
ForcedClose(l) ==
    /\ AtexitStep
    /\ Head(exitTodo) = l
    /\ l \in Range(atexit_handlers)
    /\ alive[l]

\* C11: closing a loop whose callback list is empty at that moment is the
\* loop's own close and nothing more: no callback is called, no drain is
\* scheduled, no error is raised, and the original close is invoked exactly
\* once, its result being what the call returns.
C11_EmptyListClosesNatively ==
    [][\A l \in Loops :
          ((Close(l) \/ ForcedClose(l)) /\ callbacks[CallbacksOf(l)] = <<>>)
          => /\ pc' = "idle"
             /\ invoked' = <<>>
             /\ lastError' = lastError \/ lastError' = NoError
             /\ Close(l) => lastError' = NoError
             /\ origCloseCalls'[l] = origCloseCalls[l] + 1
             /\ closed'[l]
             /\ callbacks' = callbacks]_vars

\* A loop with the patched close, closed once with nothing to drain.
C11_Witness ==
    /\ pc = "idle" /\ phase = "run"
    /\ loop_close[DefaultLoop] = "patched"
    /\ closed[DefaultLoop]
    /\ origCloseCalls[DefaultLoop] = 1
    /\ callbacks[DefaultLoop] = <<>>
    /\ invoked = <<>> /\ drainLoop = None
    /\ lastError = NoError
    /\ used = {"cb1"}

\* C12: a loop that is not closed and whose callback list is not empty has
\* its exit hook registered with atexit, also when an earlier unregister
\* emptied the list and removed the hook (lines 85-87) before register was
\* called again.
C12_PendingLoopHasExitHook ==
    \A l \in Loops :
        (alive[l] /\ ~closed[l] /\ callbacks[CallbacksOf(l)] # <<>>)
        => l \in Range(atexit_handlers)

\* C13: when a drain has ended and the loop's own close has run, every
\* callback that was in the list when the drain began has been called,
\* whatever register and unregister calls were made on the loop during the
\* drain.  (Read in the claim's favour: a callback unregistered from the loop
\* during the drain is not counted among those owed a call.)
C13_DrainAttemptsWholeList ==
    (pc = "idle" /\ drainLoop # None)
    => \A c \in Range(snapshot) : Count(invoked, c) >= Count(snapshot, c)

\* C20: a callback registered on a loop while that loop's drain is in
\* progress is called in that same drain, before the loop's own close; when
\* the drain has ended and the list has been cleared, no callback registered
\* during it (and not unregistered since) is left uncalled.
C20_LateRegistrationRuns ==
    (pc = "idle" /\ drainLoop # None) => late = {}

C15_OrigCloseCapturedOnce ==
    [][\A l \in Loops :
          /\ atexit_orig_close'[l] # "patched"
          /\ close_ref'[l] # "patched"
          /\ (atexit_orig_close[l] # "unset" /\ alive'[l])
             => atexit_orig_close'[l] = atexit_orig_close[l]
          /\ lastError' # "RecursionError"]_vars

\* Two passes through the interception (two register calls on one loop),
\* then the patched close drained both callbacks and reached the loop's own
\* close.
C15_Witness ==
    /\ pc = "idle"
    /\ drained[DefaultLoop]
    /\ drainLoop = DefaultLoop
    /\ Len(invoked) = 2
    /\ ~mutated
    /\ patches[DefaultLoop] = 1
    /\ atexit_orig_close[DefaultLoop] = "orig"
    /\ origCloseCalls[DefaultLoop] = 1

\* The loop's own close is invoked for loop l through its patched close.
PatchedOrigClose(l) ==
    /\ loop_close[l] = "patched"
    /\ alive'[l]
    /\ origCloseCalls'[l] # origCloseCalls[l]

C17_CallbacksRunSequentially ==
    [][/\ unfinished' <= 1
       /\ pc = "await" => invoked' = invoked
       /\ (pc # "idle" /\ invoked' # invoked) => unfinished = 0]_vars

\* The second callback of a drain returned an awaitable, which is being
\* awaited; the first has finished.
C17_Witness ==
    /\ pc = "await"
    /\ Len(invoked) = 2
    /\ idx = 2
    /\ unfinished = 1

\* C18: a loop closed through its patched close has its exit hook
\* deregistered, and the hook is not registered again, so the exit fallback
\* does not close the loop a second time: the step in which a patched close
\* invokes the loop's own close leaves the loop's handle out of atexit, a
\* loop with an entry and no handle never gets one back, and no forced close
\* is made on a loop that a patched close has drained and closed.
C18_ClosedLoopHasNoExitHook ==
    [][\A l \in Loops :
          /\ PatchedOrigClose(l) => l \notin Range(atexit_handlers')
          /\ (l \in _registry /\ l \notin Range(atexit_handlers))
             => l \notin Range(atexit_handlers')
          /\ drained'[l] => l \notin Range(atexit_handlers')
          /\ drained[l] => ~ForcedClose(l)]_vars

\* The process has exited after a loop was drained and closed by an explicit
\* close: the loop's own close ran once and nothing was called at exit.
C18_Witness ==
    /\ phase = "done"
    /\ alive[DefaultLoop]
    /\ drained[DefaultLoop]
    /\ origCloseCalls[DefaultLoop] = 1
    /\ exitRan[DefaultLoop] = <<>>

====
